---- MODULE Spec2Model ----
(***************************************************************************)
(* Model of EXAMPLE/AlanTrader.py: the per-tick decision engine Trader.run *)
(* with its event log (track_commodity), and the diagnostics Logger.       *)
(* The Trader.run of EXAMPLE/example.py is modelled at the end, under its *)
(* own specification SpecExample.                                         *)
(*                                                                         *)
(* Prices, quantities and positions are integers.  The code compares an    *)
(* integer price with the float product reference * factor; every factor   *)
(* of the code is a decimal fraction n/d, and over all integer prices      *)
(* below 30000 the float comparison agrees with the exact comparison       *)
(* price * d < reference * n (the products that are integers in the reals, *)
(* 10000 * 0.9999, 10000 * 1.0001, 2000 * 0.95 and 2000 * 1.05, are exact  *)
(* in binary floating point as well), so comparisons are modelled          *)
(* cross-multiplied.  A reference price is a fraction [num, den] because   *)
(* the KELP midpoint (best_ask + best_bid) / 2 may be a half.              *)
(*                                                                         *)
(* Strings are sequences of one-character strings.  An Optional[int] is    *)
(* the empty sequence (None) or a one-element sequence.                    *)
(***************************************************************************)
EXTENDS Integers, Sequences, FiniteSets, TLC

\* ------------------------------------------------------------------ bounds
\* largest resting quantity at one price level of a generated book
MaxQty == 2
\* largest number of price levels on one side of a generated book
MaxLevels == 2
\* number of times the harness replays a snapshot after the first tick
MaxReplays == 1
\* latest wall-clock reading at the construction of the Trader
MaxClock == 1
\* longest log buffer Logger.print is allowed to build
MaxLog == 4

\* ------------------------------------------------------------------- state
VARIABLES
    state,              \* the snapshot of the current tick (TradingState)
    result,             \* run's returned orders: product -> sequence of Order
    conversions,        \* run's returned conversions
    trader_data,        \* run's returned traderData
    raised,             \* an exception escaped the last run
    commodity_history,  \* Trader.commodity_history: product -> sequence of events
    logs,               \* Logger.logs
    printed,            \* the record the last flush printed
    acceptable_price,   \* run's local acceptable_price, per configured product of the snapshot
    flush_args,         \* the arguments of the last flush
    clock,              \* the wall clock get_current_timestamp reads
    ticks,              \* number of calls of run so far
    prev                \* the call of run before the last one: snapshot and returned values

vars == << state, result, conversions, trader_data, raised, commodity_history,
           logs, printed, acceptable_price, flush_args, clock, ticks, prev >>

\* ------------------------------------------------------------ Python values
None == << >>

Some(x) == << x >>

\* Python truth value of an Optional[int]: None and 0 are false
Truthy(x) == x # None /\ x[1] # 0

SetMin(S) == CHOOSE x \in S : \A y \in S : x <= y

SetMax(S) == CHOOSE x \in S : \A y \in S : x >= y

min(a, b) == IF a <= b THEN a ELSE b

\* ------------------------------------------------------------------ Trader
Configured == {"RAINFOREST_RESIN", "KELP", "SQUID_INK", "CROISSANTS", "DJEMBES"}

position_limits ==
    [RAINFOREST_RESIN |-> 50, KELP |-> 50, SQUID_INK |-> 50,
     CROISSANTS |-> 250, DJEMBES |-> 60]

acceptable_prices ==
    [RAINFOREST_RESIN |-> 10000, KELP |-> 2000, SQUID_INK |-> 1870,
     CROISSANTS |-> 4270, DJEMBES |-> 13380]

\* the factors of the threshold tests, as fractions <<numerator, denominator>>
buy_factor ==
    [RAINFOREST_RESIN |-> <<9999, 10000>>, KELP |-> <<95, 100>>,
     SQUID_INK |-> <<99, 100>>, CROISSANTS |-> <<9999, 10000>>,
     DJEMBES |-> <<99985, 100000>>]

sell_factor ==
    [RAINFOREST_RESIN |-> <<10001, 10000>>, KELP |-> <<105, 100>>,
     SQUID_INK |-> <<101, 100>>, CROISSANTS |-> <<10001, 10000>>,
     DJEMBES |-> <<100015, 100000>>]

Fixed(n) == [num |-> n, den |-> 1]

\* price <= reference * factor
BelowOrEqual(price, ref, factor) ==
    price * ref.den * factor[2] <= ref.num * factor[1]

\* price < reference * factor
Below(price, ref, factor) == price * ref.den * factor[2] < ref.num * factor[1]

\* price > reference * factor
Above(price, ref, factor) == price * ref.den * factor[2] > ref.num * factor[1]

Order(symbol, price, quantity) ==
    [symbol |-> symbol, price |-> price, quantity |-> quantity]

best_ask(order_depth) ==
    IF DOMAIN order_depth.sell_orders # {}
    THEN Some(SetMin(DOMAIN order_depth.sell_orders)) ELSE None

best_bid(order_depth) ==
    IF DOMAIN order_depth.buy_orders # {}
    THEN Some(SetMax(DOMAIN order_depth.buy_orders)) ELSE None

\* state.position.get(product, 0)
current_position(position, product) ==
    IF product \in DOMAIN position THEN position[product] ELSE 0

\* Test without the truthiness guard
TestUnguarded(best, cond) ==
    IF best = None THEN "raise"
    ELSE IF cond THEN "yes" ELSE "no"

\* `best and <comparisons of best>`: cond, the comparisons of best[1], is
\* evaluated only when best is truthy; comparing None with a number raises
\* TypeError
Test(best, cond) ==
    IF ~Truthy(best) THEN "no"
    ELSE IF best = None THEN "raise"
    ELSE IF cond THEN "yes" ELSE "no"

\* the buy volume net of the events the Trader has tracked for the product
buy_volume_tracked(product, order_depth, price, position) ==
    min(-order_depth.sell_orders[price],
        position_limits[product] - position - Len(commodity_history[product]))

buy_volume(product, order_depth, price, position) ==
    min(-order_depth.sell_orders[price], position_limits[product] - position)

sell_volume(product, order_depth, price, position) ==
    min(order_depth.buy_orders[price], position_limits[product] - position)

NoAction == [orders |-> << >>, events |-> << >>, raised |-> FALSE]

Raise == [orders |-> << >>, events |-> << >>, raised |-> TRUE]

\* orders.append(Order(product, price, quantity)); track_commodity(product, action, price, volume)
Emit(product, action, price, quantity, volume) ==
    [orders |-> << Order(product, price, quantity) >>,
     events |-> << [action |-> action, price |-> price, volume |-> volume] >>,
     raised |-> FALSE]

\* the buy statement of a branch; guarded is TRUE where the code tests volume > 0
BuySide(test, guarded, product, order_depth, ask, position) ==
    IF test = "raise" THEN Raise
    ELSE IF test = "no" THEN NoAction
    ELSE LET volume == buy_volume(product, order_depth, ask[1], position)
         IN  IF guarded /\ ~(volume > 0) THEN NoAction
             ELSE Emit(product, "BUY", ask[1], volume, volume)

\* the sell statement of a branch
SellSide(test, guarded, product, order_depth, bid, position) ==
    IF test = "raise" THEN Raise
    ELSE IF test = "no" THEN NoAction
    ELSE LET volume == sell_volume(product, order_depth, bid[1], position)
         IN  IF guarded /\ ~(volume > 0) THEN NoAction
             ELSE Emit(product, "SELL", bid[1], -volume, volume)

\* the buy statement, then (unless it raised) the sell statement
Both(buy, sell) ==
    IF buy.raised THEN buy
    ELSE [orders |-> buy.orders \o sell.orders,
          events |-> buy.events \o sell.events,
          raised |-> sell.raised]

\* RAINFOREST_RESIN, SQUID_INK and CROISSANTS: fixed reference, no volume test
FixedReference(product, order_depth, position) ==
    LET ask == best_ask(order_depth)
        bid == best_bid(order_depth)
        reference == Fixed(acceptable_prices[product])
    IN  Both(BuySide(Test(ask, Below(ask[1], reference, buy_factor[product])),
                     FALSE, product, order_depth, ask, position),
             SellSide(Test(bid, Above(bid[1], reference, sell_factor[product])),
                      FALSE, product, order_depth, bid, position))

\* a reference taken from the one side present when the other is missing
kelp_partial_midpoint(ask, bid) ==
    IF Truthy(ask) /\ Truthy(bid) THEN [num |-> ask[1] + bid[1], den |-> 2]
    ELSE IF Truthy(ask) THEN Fixed(ask[1])
    ELSE IF Truthy(bid) THEN Fixed(bid[1])
    ELSE Fixed(acceptable_prices["KELP"])

\* KELP: acceptable_price = (best_ask + best_bid)/2 if (best_ask and best_bid) else 2000
kelp_acceptable_price(ask, bid) ==
    IF Truthy(ask) /\ Truthy(bid)
    THEN [num |-> ask[1] + bid[1], den |-> 2]
    ELSE Fixed(acceptable_prices["KELP"])

\* KELP: book midpoint, volume > 0 tested
Kelp(product, order_depth, position) ==
    LET ask == best_ask(order_depth)
        bid == best_bid(order_depth)
        reference == kelp_acceptable_price(ask, bid)
    IN  Both(BuySide(Test(ask, Below(ask[1], reference, buy_factor[product])),
                     TRUE, product, order_depth, ask, position),
             SellSide(Test(bid, Above(bid[1], reference, sell_factor[product])),
                      TRUE, product, order_depth, bid, position))

\* the buy test with the corridor's lower bound at the sell side's 13375
djembes_buy_test_13375(a, reference) ==
    Below(a, reference, buy_factor["DJEMBES"]) /\ a > 13375 /\ a < 13390

djembes_buy_test(a, reference) ==
    Below(a, reference, buy_factor["DJEMBES"]) /\ a > 13378 /\ a < 13390

djembes_sell_test(b, reference) ==
    Above(b, reference, sell_factor["DJEMBES"]) /\ b < 13390 /\ b > 13375

\* DJEMBES: fixed reference and an absolute price corridor, no volume test
Djembes(product, order_depth, position) ==
    LET ask == best_ask(order_depth)
        bid == best_bid(order_depth)
        reference == Fixed(acceptable_prices[product])
    IN  Both(BuySide(Test(ask, djembes_buy_test(ask[1], reference)),
                     FALSE, product, order_depth, ask, position),
             SellSide(Test(bid, djembes_sell_test(bid[1], reference)),
                      FALSE, product, order_depth, bid, position))

\* the local acceptable_price of the branch of a configured product
reference_price(product, order_depth) ==
    IF product = "KELP"
    THEN kelp_acceptable_price(best_ask(order_depth), best_bid(order_depth))
    ELSE Fixed(acceptable_prices[product])

\* the if/elif chain of the loop body; no branch for any other product
Strategy(product, order_depth, position) ==
    IF product \in {"RAINFOREST_RESIN", "SQUID_INK", "CROISSANTS"}
        THEN FixedReference(product, order_depth, position)
    ELSE IF product = "KELP" THEN Kelp(product, order_depth, position)
    ELSE IF product = "DJEMBES" THEN Djembes(product, order_depth, position)
    ELSE NoAction

\* ------------------------------------------------------------------ Logger
max_log_length == 3750

\* value[:k] of Python: the first k characters, or all but the last -k
PySlice(value, k) ==
    IF k >= 0 THEN SubSeq(value, 1, min(k, Len(value)))
    ELSE SubSeq(value, 1, IF Len(value) + k > 0 THEN Len(value) + k ELSE 0)

Ellipsis == << ".", ".", "." >>

truncate(value, max_length) ==
    IF Len(value) <= max_length THEN value
    ELSE PySlice(value, max_length - 3) \o Ellipsis

\* characters json.dumps writes for one character of a string
EscapedLength(c) == IF c \in {"\n", "\"", "\\"} THEN 2 ELSE 1

RECURSIVE EncodedLength(_)
\* characters json.dumps writes between the quotes of a string
EncodedLength(value) ==
    IF value = << >> THEN 0
    ELSE EscapedLength(Head(value)) + EncodedLength(Tail(value))

\* Logger.flush: base_length is the length of the record serialized with the
\* three strings empty (listings, books, trades, position, observations and
\* orders); filling a string in adds its encoded characters
flush(state_traderData, base_length, data, buffer) ==
    LET max_item_length == (max_log_length - base_length) \div 3
        t1 == truncate(state_traderData, max_item_length)
        t2 == truncate(data, max_item_length)
        t3 == truncate(buffer, max_item_length)
    IN  [traderData |-> t1, trader_data |-> t2, logs |-> t3,
         max_item_length |-> max_item_length,
         length |-> base_length + EncodedLength(t1) + EncodedLength(t2)
                                + EncodedLength(t3)]

\* ------------------------------------------------------------------ inputs
Unconfigured == "JAMS"

Products == Configured \cup {Unconfigured}

\* the order in which a snapshot's order_depths lists its products
ProductOrder ==
    << "RAINFOREST_RESIN", "KELP", "SQUID_INK", "CROISSANTS", "DJEMBES", "JAMS" >>

\* prices on either side of each threshold of the code
AskPrices ==
    [RAINFOREST_RESIN |-> {9998, 9999}, KELP |-> {1800, 1900},
     SQUID_INK |-> {1851, 1852}, CROISSANTS |-> {4269, 4270},
     DJEMBES |-> {13377, 13379}, JAMS |-> {6500}]

BidPrices ==
    [RAINFOREST_RESIN |-> {10001, 10002}, KELP |-> {2100, 2200},
     SQUID_INK |-> {1888, 1889}, CROISSANTS |-> {4270, 4271},
     DJEMBES |-> {13382, 13383, 13389, 13390}, JAMS |-> {6400}]

Levels(prices) == {S \in SUBSET prices : Cardinality(S) <= MaxLevels}

BuyOrders(prices) == UNION {[S -> 1..MaxQty] : S \in Levels(prices)}

SellOrders(prices) ==
    {[p \in DOMAIN f |-> -f[p]] : f \in BuyOrders(prices)}

OrderDepths(product) ==
    [buy_orders : BuyOrders(BidPrices[product]),
     sell_orders : SellOrders(AskPrices[product])]

Limit(product) ==
    IF product \in Configured THEN position_limits[product] ELSE 1

\* a position mapping with no entry for the product, or one within the limit
Positions(product) ==
    {<< >>} \cup {product :> v : v \in {-Limit(product), 0, Limit(product) - 1,
                                        Limit(product)}}

Str(n) == [i \in 1..n |-> "a"]

TraderDataValues == {<< >>, Str(12)}

BaseLengths == {3720}

\* a snapshot that lists one product, with any generated book
SingleSnapshots ==
    UNION {[order_depths : {product :> d : d \in OrderDepths(product)},
            position : Positions(product),
            traderData : TraderDataValues,
            base_length : BaseLengths] : product \in Products}

\* an empty book, a book with MaxQty resting at the highest bid and the lowest
\* ask, and a book with 1 resting at the lowest bid and the lowest ask
PairDepths(product) ==
    {[buy_orders |-> << >>, sell_orders |-> << >>],
     [buy_orders |-> SetMax(BidPrices[product]) :> MaxQty,
      sell_orders |-> SetMin(AskPrices[product]) :> -MaxQty],
     [buy_orders |-> SetMin(BidPrices[product]) :> 1,
      sell_orders |-> SetMin(AskPrices[product]) :> -1]}

\* a snapshot that lists two products
PairSnapshots ==
    UNION {[order_depths : {(pair[1] :> d1) @@ (pair[2] :> d2) :
                              d1 \in PairDepths(pair[1]),
                              d2 \in PairDepths(pair[2])},
            position : {f1 @@ f2 :
                          f1 \in {<< >>, pair[1] :> Limit(pair[1])},
                          f2 \in {<< >>, pair[2] :> 0}},
            traderData : TraderDataValues,
            base_length : BaseLengths] :
           pair \in {q \in Products \X Products : q[1] # q[2]}}

Snapshots == SingleSnapshots \cup PairSnapshots

PrintTexts == {<< "a" >>, << "\"" >>}

FlushStrings == {<< >>, Str(2), Str(12), [i \in 1..12 |-> "\n"]}

FlushBaseLengths == {3720, 3747, 3750, 3760}

\* -------------------------------------------------------------- operations
Init ==
    /\ state = [order_depths |-> << >>, position |-> << >>,
                traderData |-> << >>, base_length |-> 0]
    /\ result = << >>
    /\ conversions = 0
    /\ trader_data = << >>
    /\ raised = FALSE
    /\ commodity_history = [p \in Configured |-> << >>]
    /\ logs = << >>
    /\ printed = [traderData |-> << >>, trader_data |-> << >>, logs |-> << >>,
                  max_item_length |-> 0, length |-> 0]
    /\ acceptable_price = << >>
    /\ flush_args = [traderData |-> << >>, base_length |-> 0,
                     trader_data |-> << >>, logs |-> << >>]
    /\ clock \in 0..MaxClock
    /\ ticks = 0
    /\ prev = None

\* state.order_depths.keys()
Keys(order_depths) ==
    LET Listed(p) == p \in DOMAIN order_depths
    IN  SelectSeq(ProductOrder, Listed)

\* track_commodity for each event of one product, stamped by the clock
track_commodity(history, product, events, timestamp) ==
    IF events = << >> THEN history
    ELSE [history EXCEPT ![product] =
            @ \o [i \in 1..Len(events) |->
                    [timestamp |-> timestamp, action |-> events[i].action,
                     price |-> events[i].price, volume |-> events[i].volume]]]

RECURSIVE RunLoopAll(_, _, _, _)
\* the loop with result[product] = orders assigned for every product
RunLoopAll(keys, snapshot, timestamp, acc) ==
    IF keys = << >> \/ acc.raised THEN acc
    ELSE LET product == Head(keys)
             out == Strategy(product, snapshot.order_depths[product],
                             current_position(snapshot.position, product))
         IN  RunLoopAll(Tail(keys), snapshot, timestamp,
                        [result |-> IF ~out.raised
                                    THEN acc.result @@ (product :> out.orders)
                                    ELSE acc.result,
                         history |-> track_commodity(acc.history, product,
                                                     out.events, timestamp),
                         raised |-> out.raised])

RECURSIVE RunLoop(_, _, _, _)
\* the for loop of run: acc is [result, history, raised] so far
RunLoop(keys, snapshot, timestamp, acc) ==
    IF keys = << >> \/ acc.raised THEN acc
    ELSE LET product == Head(keys)
             out == Strategy(product, snapshot.order_depths[product],
                             current_position(snapshot.position, product))
         IN  RunLoop(Tail(keys), snapshot, timestamp,
                     [result |-> IF out.orders # << >> /\ ~out.raised
                                 THEN acc.result @@ (product :> out.orders)
                                 ELSE acc.result,
                      history |-> track_commodity(acc.history, product,
                                                  out.events, timestamp),
                      raised |-> out.raised])

\* Trader.run on a snapshot, with the flush of the logger at its end
Run(snapshot) ==
    LET out == RunLoop(Keys(snapshot.order_depths), snapshot, clock,
                       [result |-> << >>, history |-> commodity_history,
                        raised |-> FALSE])
    IN  /\ state' = snapshot
        /\ commodity_history' = out.history
        /\ raised' = out.raised
        /\ result' = IF out.raised THEN << >> ELSE out.result
        /\ conversions' = 0
        /\ trader_data' = << >>
        /\ acceptable_price' =
              [p \in DOMAIN snapshot.order_depths \cap Configured |->
                 reference_price(p, snapshot.order_depths[p])]
        /\ IF out.raised THEN UNCHANGED << logs, printed, flush_args >>
           ELSE /\ printed' = flush(snapshot.traderData, snapshot.base_length,
                                    << >>, logs)
                /\ flush_args' = [traderData |-> snapshot.traderData,
                                  base_length |-> snapshot.base_length,
                                  trader_data |-> << >>, logs |-> logs]
                /\ logs' = << >>
        /\ clock' = clock + 1
        /\ ticks' = ticks + 1
        /\ prev' = IF ticks = 0 THEN None
                   ELSE Some([order_depths |-> state.order_depths,
                              position |-> state.position,
                              traderData |-> state.traderData,
                              result |-> result, conversions |-> conversions,
                              trader_data |-> trader_data,
                              commodity_history |-> commodity_history,
                              clock |-> clock])

\* the harness delivers the first snapshot to a new Trader
Tick == ticks = 0 /\ \E snapshot \in Snapshots : Run(snapshot)

\* the harness delivers the same books and positions again, with traderData
\* set to the state the previous call returned
Replay ==
    /\ ticks \in 1..MaxReplays
    /\ ~raised
    /\ Run([state EXCEPT !.traderData = trader_data])

Next == Tick \/ Replay

Spec == Init /\ [][Next]_vars

\* Logger.print(text): logs += text + "\n"
LoggerPrint(text) ==
    /\ Len(logs) + Len(text) + 1 <= MaxLog
    /\ logs' = logs \o text \o << "\n" >>
    /\ UNCHANGED << state, result, conversions, trader_data, raised,
                    commodity_history, printed, acceptable_price, flush_args,
                    clock, ticks, prev >>

\* Logger.flush called with any strings and any size of the rest of the record
Flush(state_traderData, base_length, data) ==
    /\ printed' = flush(state_traderData, base_length, data, logs)
    /\ flush_args' = [traderData |-> state_traderData,
                      base_length |-> base_length,
                      trader_data |-> data, logs |-> logs]
    /\ logs' = << >>
    /\ UNCHANGED << state, result, conversions, trader_data, raised,
                    commodity_history, acceptable_price, clock, ticks, prev >>

NextLogger ==
    \/ \E text \in PrintTexts : LoggerPrint(text)
    \/ \E s \in FlushStrings, b \in FlushBaseLengths, d \in FlushStrings :
          Flush(s, b, d)

SpecLogger == Init /\ [][NextLogger]_vars

\* ------------------------------------------------------------------ claims
\* run has returned from the snapshot in state
Returned == ticks > 0 /\ ~raised

Listed == DOMAIN state.order_depths

Depth(p) == state.order_depths[p]

Held(p) == IF p \in DOMAIN state.position THEN state.position[p] ELSE 0

OrdersOf(p) == IF p \in DOMAIN result THEN result[p] ELSE << >>

Emitted(p) == {OrdersOf(p)[i] : i \in 1..Len(OrdersOf(p))}

\* an order priced at a level of the ask side is a buy, one priced at a level
\* of the bid side is a sell
BuysOf(p) == {o \in Emitted(p) : o.price \in DOMAIN Depth(p).sell_orders}

SellsOf(p) == {o \in Emitted(p) : o.price \in DOMAIN Depth(p).buy_orders}

Abs(x) == IF x < 0 THEN -x ELSE x

\* the signed amounts an order of this quantity can be filled by
Fills(quantity) == IF quantity >= 0 THEN 0..quantity ELSE quantity..0

RECURSIVE FillSums(_)
\* the total signed fills a sequence of orders can get
FillSums(orders) ==
    IF orders = << >> THEN {0}
    ELSE {f + g : f \in Fills(Head(orders).quantity), g \in FillSums(Tail(orders))}

\* C1: for every configured instrument whose position is within its limit,
\* every achievable fill of the orders emitted this tick leaves the position
\* within the limit, and at the limit no order is emitted on the breaching side.
C1_PositionLimit ==
    Returned =>
        \A p \in Listed \cap Configured :
            Abs(Held(p)) <= position_limits[p] =>
                /\ \A f \in FillSums(OrdersOf(p)) :
                       Abs(Held(p) + f) <= position_limits[p]
                /\ Held(p) = position_limits[p] => BuysOf(p) = {}
                /\ Held(p) = -position_limits[p] => SellsOf(p) = {}

\* C2: an emitted buy has quantity min(-resting ask quantity at the best ask,
\* limit - position); an emitted sell has magnitude min(resting bid quantity
\* at the best bid, limit + position).
C2_VolumeSizing ==
    Returned =>
        \A p \in Listed \cap Configured :
            /\ \A o \in BuysOf(p) :
                   o.quantity =
                       min(-Depth(p).sell_orders[SetMin(DOMAIN Depth(p).sell_orders)],
                           position_limits[p] - Held(p))
            /\ \A o \in SellsOf(p) :
                   -o.quantity =
                       min(Depth(p).buy_orders[SetMax(DOMAIN Depth(p).buy_orders)],
                           position_limits[p] + Held(p))

\* C3: every emitted buy order has quantity > 0 and every emitted sell order
\* has quantity < 0, for all five configured instruments.
C3_NoNonPositiveQuantity ==
    Returned =>
        \A p \in Listed \cap Configured :
            /\ \A o \in BuysOf(p) : o.quantity > 0
            /\ \A o \in SellsOf(p) : o.quantity < 0

\* C4: on a snapshot with an empty ask side, bid side or both, run does not
\* raise, emits no buy order for an instrument with an empty ask side and no
\* sell order for an instrument with an empty bid side.
C4_EmptySideSafety ==
    ticks > 0 =>
        /\ ~raised
        /\ \A p \in Listed :
               /\ DOMAIN Depth(p).sell_orders = {} =>
                      \A o \in Emitted(p) :
                          o.price \in DOMAIN Depth(p).buy_orders /\ o.quantity <= 0
               /\ DOMAIN Depth(p).buy_orders = {} =>
                      \A o \in Emitted(p) :
                          o.price \in DOMAIN Depth(p).sell_orders /\ o.quantity >= 0

\* run returned on a snapshot whose instrument has an empty ask side and a
\* bid side it sold into
C4_Witness ==
    /\ Returned
    /\ \E p \in Listed :
           /\ DOMAIN Depth(p).sell_orders = {}
           /\ DOMAIN Depth(p).buy_orders # {}
           /\ Emitted(p) # {}

\* C5: for RAINFOREST_RESIN a best ask of exactly 9999 = 10000 x (1 - 0.0001)
\* triggers no buy, and a best ask of 9998 with a resting quantity and the
\* position below the limit triggers a buy at 9998.
C5_ThresholdBoundary ==
    (Returned /\ "RAINFOREST_RESIN" \in Listed) =>
        LET asks == Depth("RAINFOREST_RESIN").sell_orders
            held == Held("RAINFOREST_RESIN")
        IN  DOMAIN asks # {} =>
              LET ask == SetMin(DOMAIN asks)
              IN  /\ ask = 9999 => BuysOf("RAINFOREST_RESIN") = {}
                  /\ (ask = 9998 /\ asks[ask] # 0 /\ held < 50) =>
                        \E o \in BuysOf("RAINFOREST_RESIN") :
                            /\ o.price = 9998
                            /\ o.quantity = min(-asks[ask], 50 - held)
                            /\ o.quantity > 0

\* run bought RAINFOREST_RESIN at a best ask of 9998
C5_Witness ==
    /\ Returned
    /\ "RAINFOREST_RESIN" \in Listed
    /\ DOMAIN Depth("RAINFOREST_RESIN").sell_orders = {9998}
    /\ Held("RAINFOREST_RESIN") < 50
    /\ \E o \in BuysOf("RAINFOREST_RESIN") : o.quantity > 0

\* C6: for KELP the reference price is the constant 2000 whenever the bid
\* side or the ask side is empty, and the midpoint (best ask + best bid) / 2
\* only when both sides are non-empty; the comparisons use that reference.
C6_MidpointFallback ==
    (Returned /\ "KELP" \in Listed) =>
        LET asks == Depth("KELP").sell_orders
            bids == Depth("KELP").buy_orders
            ref == acceptable_price["KELP"]
        IN  /\ (DOMAIN asks = {} \/ DOMAIN bids = {}) =>
                  /\ ref = [num |-> 2000, den |-> 1]
                  /\ (BuysOf("KELP") # {}) <=>
                        (/\ DOMAIN asks # {}
                         /\ SetMin(DOMAIN asks) * 100 < 2000 * 95
                         /\ Held("KELP") < 50)
                  /\ (SellsOf("KELP") # {}) <=>
                        (/\ DOMAIN bids # {}
                         /\ SetMax(DOMAIN bids) * 100 > 2000 * 105
                         /\ Held("KELP") < 50)
            /\ ref # [num |-> 2000, den |-> 1] =>
                  /\ DOMAIN asks # {}
                  /\ DOMAIN bids # {}
                  /\ ref = [num |-> SetMin(DOMAIN asks) + SetMax(DOMAIN bids),
                            den |-> 2]

\* run bought KELP from a book whose bid side is empty
C6_Witness ==
    /\ Returned
    /\ "KELP" \in Listed
    /\ DOMAIN Depth("KELP").buy_orders = {}
    /\ DOMAIN Depth("KELP").sell_orders # {}
    /\ BuysOf("KELP") # {}

\* C7: a call of run whose snapshot has the books and positions of the call
\* before it returns the same orders, conversions and traderData, whatever
\* the incoming traderData, the clock and the events tracked so far; the
\* conversions are always 0 and the returned traderData always empty.
C7_ReplayDeterminism ==
    /\ Returned => (conversions = 0 /\ trader_data = << >>)
    /\ (/\ Returned
        /\ prev # None
        /\ prev[1].order_depths = state.order_depths
        /\ prev[1].position = state.position) =>
            /\ result = prev[1].result
            /\ conversions = prev[1].conversions
            /\ trader_data = prev[1].trader_data

\* a replay returned orders although the incoming traderData, the clock and
\* the tracked events all differ from those of the call before
C7_Witness ==
    /\ Returned
    /\ prev # None
    /\ prev[1].order_depths = state.order_depths
    /\ prev[1].position = state.position
    /\ prev[1].traderData # state.traderData
    /\ prev[1].commodity_history # commodity_history
    /\ prev[1].clock # clock
    /\ result # << >>

\* C9: an instrument of the snapshot that is not configured gets no orders
\* and raises nothing; the returned mapping has a key exactly for the
\* instruments with at least one emitted order; an instrument missing from
\* the position mapping is evaluated as with position 0.
C9_UnconfiguredAndIdle ==
    ticks > 0 =>
        /\ ~raised
        /\ DOMAIN result \subseteq Listed \cap Configured
        /\ \A p \in DOMAIN result : result[p] # << >>
        /\ \A p \in (Listed \cap Configured) \ DOMAIN state.position :
               /\ OrdersOf(p) = Strategy(p, Depth(p), 0).orders
               /\ \A o \in BuysOf(p) :
                      o.quantity = min(-Depth(p).sell_orders[o.price],
                                       position_limits[p])
               /\ \A o \in SellsOf(p) :
                      -o.quantity = min(Depth(p).buy_orders[o.price],
                                        position_limits[p])

\* run returned on a snapshot that lists an unconfigured instrument with
\* resting orders and a configured instrument, missing from the position
\* mapping, that traded
C9_Witness ==
    /\ Returned
    /\ \E p \in Listed \ Configured :
           /\ DOMAIN Depth(p).buy_orders # {}
           /\ DOMAIN Depth(p).sell_orders # {}
    /\ \E p \in DOMAIN result : p \notin DOMAIN state.position

\* C10: every emitted DJEMBES order is priced inside the corridor and passes
\* the threshold test against 13380; no DJEMBES buy order is ever emitted;
\* a DJEMBES sell order is emitted exactly for best bids in 13383..13389.
C10_Corridor ==
    (Returned /\ "DJEMBES" \in Listed) =>
        LET asks == Depth("DJEMBES").sell_orders
            bids == Depth("DJEMBES").buy_orders
        IN  /\ BuysOf("DJEMBES") = {}
            /\ \A o \in Emitted("DJEMBES") :
                   /\ o.quantity <= 0
                   /\ DOMAIN bids # {}
                   /\ o.price = SetMax(DOMAIN bids)
                   /\ o.price > 13375
                   /\ o.price < 13390
                   /\ o.price * 100000 > 13380 * 100015
            /\ (SellsOf("DJEMBES") # {}) <=>
                   (DOMAIN bids # {} /\ SetMax(DOMAIN bids) \in 13383..13389)

\* run sold DJEMBES at a best bid of 13389 and did not buy at the resting ask
\* of 13377, which is below 13380 x 0.99985
C10_Witness ==
    /\ Returned
    /\ "DJEMBES" \in Listed
    /\ 13377 \in DOMAIN Depth("DJEMBES").sell_orders
    /\ DOMAIN Depth("DJEMBES").buy_orders # {}
    /\ SetMax(DOMAIN Depth("DJEMBES").buy_orders) = 13389
    /\ Len(OrdersOf("DJEMBES")) = 1

Flushed == flush_args.base_length > 0

EndsWithEllipsis(value) ==
    /\ Len(value) >= 3
    /\ SubSeq(value, Len(value) - 2, Len(value)) = << ".", ".", "." >>

\* C8: the record a flush prints is at most 3750 characters long, whatever
\* the strings and the rest of the record; each of the three strings longer
\* than (3750 - base length) // 3 is shortened to at most that length and
\* ends with "..."; a string within that length is printed whole.
C8_Truncation ==
    Flushed =>
        LET share == (3750 - flush_args.base_length) \div 3
        IN  /\ printed.length <= 3750
            /\ \A f \in {"traderData", "trader_data", "logs"} :
                   IF Len(flush_args[f]) > share
                   THEN /\ Len(printed[f]) < Len(flush_args[f])
                        /\ Len(printed[f]) <= share
                        /\ EndsWithEllipsis(printed[f])
                   ELSE printed[f] = flush_args[f]

\* ------------------------------------------------- EXAMPLE/example.py: Trader
\* The Trader of example.py keeps no history and reads no clock.  An order's
\* price is best_ask or best_bid as run computed it, so it is an Optional.
example_Configured == {"RAINFOREST_RESIN", "KELP", "SQUID_INK"}

example_position_limits ==
    [RAINFOREST_RESIN |-> 50, KELP |-> 50, SQUID_INK |-> 50]

example_acceptable_prices ==
    [RAINFOREST_RESIN |-> 10000, KELP |-> 2000, SQUID_INK |-> 1800]

\* 10000 * 0.97, 1800 * 0.97 and 2000 * 0.95 are exact in floating point
example_buy_factor ==
    [RAINFOREST_RESIN |-> <<97, 100>>, KELP |-> <<95, 100>>,
     SQUID_INK |-> <<97, 100>>]

\* 10000 * 1.03, 1800 * 1.03 and 2000 * 1.05 are exact in floating point
example_sell_factor ==
    [RAINFOREST_RESIN |-> <<103, 100>>, KELP |-> <<105, 100>>,
     SQUID_INK |-> <<103, 100>>]

\* best_ask and best_ask < acceptable_price * factor
example_buy_test(product, ask, reference) ==
    Truthy(ask) /\ Below(ask[1], reference, example_buy_factor[product])

\* best_bid and best_bid > acceptable_price * factor
example_sell_test(product, bid, reference) ==
    Truthy(bid) /\ Above(bid[1], reference, example_sell_factor[product])

\* min(-order_depth.sell_orders[best_ask], limit - current_position)
example_buy_volume(product, order_depth, ask, position) ==
    min(-order_depth.sell_orders[ask[1]],
        example_position_limits[product] - position)

\* min(order_depth.buy_orders[best_bid], limit - current_position)
example_sell_volume(product, order_depth, bid, position) ==
    min(order_depth.buy_orders[bid[1]],
        example_position_limits[product] - position)

\* (best_ask + best_bid) / 2 if both are truthy, else the configured price
example_kelp_acceptable_price(ask, bid) ==
    IF Truthy(ask) /\ Truthy(bid)
    THEN [num |-> ask[1] + bid[1], den |-> 2]
    ELSE Fixed(example_acceptable_prices["KELP"])

\* RAINFOREST_RESIN: both orders appended whatever their volume
example_Resin(product, order_depth, position) ==
    LET ask == best_ask(order_depth)
        bid == best_bid(order_depth)
        reference == Fixed(example_acceptable_prices[product])
        buys == IF example_buy_test(product, ask, reference)
                THEN << Order(product, ask,
                              example_buy_volume(product, order_depth, ask,
                                                 position)) >>
                ELSE << >>
        sells == IF example_sell_test(product, bid, reference)
                 THEN << Order(product, bid,
                               example_sell_volume(product, order_depth, bid,
                                                   position)) >>
                 ELSE << >>
    IN  buys \o sells

\* KELP: book midpoint, each order appended if its volume > 0
example_Kelp(product, order_depth, position) ==
    LET ask == best_ask(order_depth)
        bid == best_bid(order_depth)
        reference == example_kelp_acceptable_price(ask, bid)
        bought == IF example_buy_test(product, ask, reference)
                  THEN example_buy_volume(product, order_depth, ask, position)
                  ELSE 0
        sold == IF example_sell_test(product, bid, reference)
                THEN example_sell_volume(product, order_depth, bid, position)
                ELSE 0
    IN  (IF bought > 0 THEN << Order(product, ask, bought) >> ELSE << >>)
        \o (IF sold > 0 THEN << Order(product, bid, sold) >> ELSE << >>)

\* SQUID_INK: volume starts at 0; the buy test assigns it and appends the
\* order at best_ask; the sell test only assigns it; then, outside the sell
\* test, `if volume != 0` appends an order at best_bid with the volume last
\* assigned
example_SquidInk(product, order_depth, position) ==
    LET ask == best_ask(order_depth)
        bid == best_bid(order_depth)
        reference == Fixed(example_acceptable_prices[product])
        buying == example_buy_test(product, ask, reference)
        bought == IF buying
                  THEN example_buy_volume(product, order_depth, ask, position)
                  ELSE 0
        volume == IF example_sell_test(product, bid, reference)
                  THEN example_sell_volume(product, order_depth, bid, position)
                  ELSE bought
    IN  (IF buying THEN << Order(product, ask, bought) >> ELSE << >>)
        \o (IF volume # 0 THEN << Order(product, bid, volume) >> ELSE << >>)

\* the if/elif chain of the loop body; any other product keeps orders = []
example_Strategy(product, order_depth, position) ==
    IF product = "RAINFOREST_RESIN"
        THEN example_Resin(product, order_depth, position)
    ELSE IF product = "KELP" THEN example_Kelp(product, order_depth, position)
    ELSE IF product = "SQUID_INK"
        THEN example_SquidInk(product, order_depth, position)
    ELSE << >>

\* the loop over state.order_depths: result[product] = orders for every key
RECURSIVE example_RunLoop(_, _, _)
example_RunLoop(keys, snapshot, acc) ==
    IF keys = << >> THEN acc
    ELSE LET product == Head(keys)
         IN  example_RunLoop(
                 Tail(keys), snapshot,
                 acc @@ (product :>
                     example_Strategy(product, snapshot.order_depths[product],
                                      current_position(snapshot.position,
                                                       product))))

\* run's local acceptable_price of a configured product
example_reference_price(product, order_depth) ==
    IF product = "KELP"
    THEN example_kelp_acceptable_price(best_ask(order_depth),
                                       best_bid(order_depth))
    ELSE Fixed(example_acceptable_prices[product])

\* ------------------------------------------------- example.py: inputs
ExampleProducts == example_Configured \cup {Unconfigured}

\* prices on either side of each threshold of example.py
ExampleAskPrices ==
    [RAINFOREST_RESIN |-> {9699, 9700}, KELP |-> {1800, 1900},
     SQUID_INK |-> {1745, 1746}, JAMS |-> {6500}]

ExampleBidPrices ==
    [RAINFOREST_RESIN |-> {10300, 10301}, KELP |-> {2100, 2200},
     SQUID_INK |-> {1854, 1855}, JAMS |-> {6400}]

ExampleOrderDepths(product) ==
    [buy_orders : BuyOrders(ExampleBidPrices[product]),
     sell_orders : SellOrders(ExampleAskPrices[product])]

\* a snapshot that lists one product, with any generated book
ExampleSingleSnapshots ==
    UNION {[order_depths : {product :> d : d \in ExampleOrderDepths(product)},
            position : Positions(product),
            traderData : TraderDataValues,
            base_length : BaseLengths] : product \in ExampleProducts}

\* an empty book, a book with only asks, and a book with MaxQty resting at
\* the highest bid and the lowest ask
ExamplePairDepths(product) ==
    {[buy_orders |-> << >>, sell_orders |-> << >>],
     [buy_orders |-> << >>,
      sell_orders |-> SetMin(ExampleAskPrices[product]) :> -1],
     [buy_orders |-> SetMax(ExampleBidPrices[product]) :> MaxQty,
      sell_orders |-> SetMin(ExampleAskPrices[product]) :> -MaxQty]}

\* a snapshot that lists two products
ExamplePairSnapshots ==
    UNION {[order_depths : {(pair[1] :> d1) @@ (pair[2] :> d2) :
                              d1 \in ExamplePairDepths(pair[1]),
                              d2 \in ExamplePairDepths(pair[2])},
            position : {f1 @@ f2 :
                          f1 \in {<< >>, pair[1] :> Limit(pair[1])},
                          f2 \in {<< >>, pair[2] :> 0}},
            traderData : TraderDataValues,
            base_length : BaseLengths] :
           pair \in {q \in ExampleProducts \X ExampleProducts : q[1] # q[2]}}

ExampleSnapshots == ExampleSingleSnapshots \cup ExamplePairSnapshots

\* ------------------------------------------------- example.py: operations
\* Trader.run of example.py on a snapshot, with the flush at its end
example_Run(snapshot) ==
    /\ state' = snapshot
    /\ result' = example_RunLoop(Keys(snapshot.order_depths), snapshot, << >>)
    /\ conversions' = 0
    /\ trader_data' = << >>
    /\ raised' = FALSE
    /\ acceptable_price' =
          [p \in DOMAIN snapshot.order_depths \cap example_Configured |->
             example_reference_price(p, snapshot.order_depths[p])]
    /\ printed' = flush(snapshot.traderData, snapshot.base_length, << >>, logs)
    /\ flush_args' = [traderData |-> snapshot.traderData,
                      base_length |-> snapshot.base_length,
                      trader_data |-> << >>, logs |-> logs]
    /\ logs' = << >>
    /\ ticks' = ticks + 1
    /\ UNCHANGED << commodity_history, clock, prev >>

\* the harness delivers a snapshot to the Trader of example.py, which keeps
\* nothing from one call to the next
ExampleTick ==
    ticks = 0 /\ \E snapshot \in ExampleSnapshots : example_Run(snapshot)

NextExample == ExampleTick

SpecExample == Init /\ [][NextExample]_vars

\* ------------------------------------------------- example.py: claims
\* the orders returned for product p by the example.py variant
ExampleOrders(p) == {result[p][i] : i \in 1..Len(result[p])}

\* the order is priced at the best ask and sized from the ask side
SizedFromAsk(o, p) ==
    /\ o.price = best_ask(Depth(p))
    /\ o.quantity = example_buy_volume(p, Depth(p), o.price, Held(p))

\* the order is priced at the best bid and sized from the bid side
SizedFromBid(o, p) ==
    /\ o.price = best_bid(Depth(p))
    /\ o.quantity = example_sell_volume(p, Depth(p), o.price, Held(p))

\* C11: in the example.py variant of Trader.run, for every snapshot (a book
\* side may be empty), every order returned for SQUID_INK, KELP and
\* RAINFOREST_RESIN has a defined price, and that price is the best ask with
\* the quantity sized from the ask side or the best bid with the quantity
\* sized from the bid side.
C11_WellFormedOrders ==
    Returned =>
        \A p \in Listed \cap example_Configured :
            \A o \in ExampleOrders(p) :
                /\ o.price # None
                /\ SizedFromAsk(o, p) \/ SizedFromBid(o, p)

====
